---- MODULE Spec2Model ----
(***************************************************************************)
(* Posting-schedule allocation (services/scheduler.py, ContentScheduler)   *)
(* and content-performance optimisation (services/optimization.py,         *)
(* ContentOptimizationEngine) of the arya agent platform backend.          *)
(*                                                                         *)
(* Instants are integers: minutes since a Monday 00:00 UTC.                *)
(***************************************************************************)
EXTENDS Integers, Sequences, FiniteSets, TLC

VARIABLES
    \* ---- ContentOptimizationEngine: the predictor's state -------------
    scaler,             \* self.scaler: 0 = not fitted, g = fitted by training call g
    engagement_model,   \* self.engagement_model: 0 = no coef_, g = fitted by call g
    reach_model,        \* self.reach_model
    click_model,        \* self.click_model
    model_performance,  \* self.model_performance: per metric, the call that set it (0 = initial)
    \* ---- a train_predictive_models call in progress --------------------
    trainPc,            \* position of the training call
    trainData,          \* its arguments
    trainBefore,        \* the predictor's state when the call began
    trainResult,        \* what the call returned / raised
    trainCalls,         \* number of training calls begun so far
    \* ---- a predict_content_performance call in progress ----------------
    predPc,             \* position of the prediction call
    predRead,           \* the generation of the scaler and of each model that it used
    predResult,         \* what the call returned / raised
    stable,             \* parameter sets the predictor held while no training call was running
    \* ---- get_content_optimization_suggestions / analyze_content_performance
    suggestions,        \* arguments and outcome of the last suggestion call
    posts_data,         \* argument posts_data of analyze_content_performance
    analysis,           \* outcome of analyze_content_performance
    \* ---- ContentScheduler: the page and the clock -----------------------
    region,             \* facebook_page.region
    dst,                \* whether daylight-saving time is in force in the region
    now,                \* datetime.now(timezone.utc)
    \* ---- get_optimal_posting_times / calculate_next_posting_slot --------
    target_date,        \* argument target_date
    page_preferences,   \* argument page_preferences (<<>> stands for None and for [])
    optimal_times,      \* outcome of get_optimal_posting_times
    jitter,             \* the minutes random.randint(0, 59) gave in the last call, per hour
    existing_posts,     \* argument existing_posts
    next_slot,          \* outcome of calculate_next_posting_slot
    \* ---- validate_posting_schedule --------------------------------------
    proposed_schedule,  \* the caller's list object passed as proposed_schedule
    validation_results, \* the report of the last call
    validated,          \* <<schedule, clock>> of the last call
    \* ---- add_human_like_variance ----------------------------------------
    scheduled_times,    \* argument scheduled_times
    variance_random,    \* what random.randint and datetime.now give during the call
    varied_times,       \* outcome of add_human_like_variance
    \* ---- calculate_posting_frequency / generate_posting_schedule --------
    posting_frequency,  \* arguments and outcome of calculate_posting_frequency
    generated_schedule, \* arguments and outcome of generate_posting_schedule
    \* ---- optimize_schedule_for_engagement ------------------------------
    optimized_schedule, \* arguments and outcome of optimize_schedule_for_engagement
    \* ---- routes/content.py schedule_content ----------------------------
    scheduled_posts,    \* scheduled_time of the page's ScheduledPost rows, in commit order
    requests            \* per schedule_content request: its position and what it holds

predictorVars == <<scaler, engagement_model, reach_model, click_model, model_performance,
                   trainPc, trainData, trainBefore, trainResult, trainCalls,
                   predPc, predRead, predResult, stable,
                   suggestions, posts_data, analysis>>

pageVars == <<region, dst, now>>
optimalVars == <<target_date, page_preferences, optimal_times, jitter>>
slotVars == <<existing_posts, next_slot>>
validateVars == <<proposed_schedule, validation_results, validated>>
varianceVars == <<scheduled_times, variance_random, varied_times>>
plannerVars == <<posting_frequency, generated_schedule>>
routeVars == <<optimized_schedule, scheduled_posts, requests>>
schedulerVars == <<pageVars, optimalVars, slotVars, validateVars, varianceVars, plannerVars,
                   routeVars>>

vars == <<predictorVars, schedulerVars>>

(***************************************************************************)
(* Bounds of the model                                                     *)
(***************************************************************************)
MaxTrainCalls == 2      \* training calls per behaviour
MaxPrefix == 2          \* free-form instants at the head of a proposed schedule
MaxRun == 31            \* evenly spaced instants that follow them
MaxTimes == 3           \* instants handed to add_human_like_variance
SizeSlack == 1          \* sample counts range over MinTrainingSamples -/+ SizeSlack
MaxImageRun == 13       \* posts with an image, and posts without, in posts_data
MaxBase == 2            \* instants of a base schedule handed to optimize_schedule_for_engagement

\* No random draws
NoRandom == [draws |-> <<>>, elapsed |-> 0]

\* Outcome of an operation that has not been called
NoOutcome == [kind |-> "none"]

Raised(e) == [kind |-> "raised", error |-> e]
Returned(v) == [kind |-> "returned", value |-> v]

(***************************************************************************)
(* ContentOptimizationEngine: train_predictive_models /                    *)
(* predict_content_performance                                             *)
(***************************************************************************)
Unfitted == 0
\* a guard that lets a 19-sample call through
MinTrainingSamplesLow == 20 - 1

MinTrainingSamples == 20
Metrics == {"engagement", "reach", "click"}

\* The arguments of a training call, as far as the call's control flow
\* depends on them: the number of samples, whether the feature matrix holds
\* a non-finite value (StandardScaler.fit_transform raises), and, per
\* target, whether the target vector is unusable (holds NaN / has a length
\* different from the features'), in which case LinearRegression.fit raises
\* before it assigns coef_.
TrainInputs ==
    [n : (MinTrainingSamples - SizeSlack)..(MinTrainingSamples + SizeSlack),
     xBad : BOOLEAN, yEngagementBad : BOOLEAN, yReachBad : BOOLEAN, yClicksBad : BOOLEAN]

NoData == [n |-> 0, xBad |-> FALSE, yEngagementBad |-> FALSE,
           yReachBad |-> FALSE, yClicksBad |-> FALSE]

Params == <<scaler, engagement_model, reach_model, click_model>>

InitialPerformance == [m \in Metrics |-> Unfitted]

InitPredictor ==
    /\ scaler = Unfitted
    /\ engagement_model = Unfitted
    /\ reach_model = Unfitted
    /\ click_model = Unfitted
    /\ model_performance = InitialPerformance
    /\ trainPc = "idle"
    /\ trainData = NoData
    /\ trainBefore = <<Unfitted, Unfitted, Unfitted, Unfitted>>
    /\ trainResult = "none"
    /\ trainCalls = 0
    /\ predPc = "idle"
    /\ predRead = <<>>
    /\ predResult = "none"
    /\ stable = {<<Unfitted, Unfitted, Unfitted, Unfitted>>}
    /\ suggestions = NoOutcome
    /\ posts_data = <<>>
    /\ analysis = NoOutcome

\* The scheduler at rest: no call has been made
IdleScheduler ==
    /\ region = "US"
    /\ dst = FALSE
    /\ now = 0
    /\ target_date = 0
    /\ page_preferences = <<>>
    /\ optimal_times = NoOutcome
    /\ jitter = <<>>
    /\ existing_posts = {}
    /\ next_slot = NoOutcome
    /\ proposed_schedule = <<>>
    /\ validation_results = NoOutcome
    /\ validated = <<>>
    /\ scheduled_times = <<>>
    /\ variance_random = NoRandom
    /\ varied_times = NoOutcome
    /\ posting_frequency = NoOutcome
    /\ generated_schedule = NoOutcome
    /\ optimized_schedule = NoOutcome
    /\ scheduled_posts = <<>>
    /\ requests = <<>>

analysisVars == <<suggestions, posts_data, analysis>>
predictVars == <<predPc, predRead, predResult>>
paramVars == <<scaler, engagement_model, reach_model, click_model>>

\* A model's fit: sklearn's estimators are fitted in place, so the object
\* the engine holds carries the new parameters as soon as fit returns.
FitInPlace(old, gen, bad) == IF bad THEN old ELSE gen

\* lines 510-519: entry and the sample-count guard
TrainCall(d) ==
    /\ UNCHANGED <<schedulerVars, analysisVars>>
    /\ trainPc = "idle"
    /\ trainCalls < MaxTrainCalls
    /\ trainCalls' = trainCalls + 1
    /\ trainData' = d
    /\ trainBefore' = Params
    /\ IF d.n < MinTrainingSamples
       THEN /\ trainResult' = "insufficient"
            /\ trainPc' = "done"
       ELSE /\ trainResult' = "none"
            /\ trainPc' = "scale"
    /\ UNCHANGED <<paramVars, model_performance, stable, predictVars>>

\* line 530: X_scaled = self.scaler.fit_transform(X), outside the try block.
\* A failing fit propagates to the caller; StandardScaler.fit resets the
\* estimator before it validates X, so the scaler is left either as it was
\* or unfitted, depending on the library's order of operations.
TrainScale ==
    /\ UNCHANGED <<schedulerVars, analysisVars>>
    /\ trainPc = "scale"
    /\ IF trainData.xBad
       THEN /\ scaler' \in {scaler, Unfitted}
            /\ trainResult' = "raised"
            /\ trainPc' = "done"
       ELSE /\ scaler' = trainCalls
            /\ trainPc' = "engagement"
            /\ UNCHANGED trainResult
    /\ UNCHANGED <<engagement_model, reach_model, click_model, model_performance,
                   trainData, trainBefore, trainCalls, stable, predictVars>>

\* lines 543-548 and 575-577
TrainEngagement ==
    /\ UNCHANGED <<schedulerVars, analysisVars>>
    /\ trainPc = "engagement"
    /\ engagement_model' = FitInPlace(engagement_model, trainCalls, trainData.yEngagementBad)
    /\ IF trainData.yEngagementBad
       THEN trainResult' = "error" /\ trainPc' = "done"
       ELSE trainPc' = "reach" /\ UNCHANGED trainResult
    /\ UNCHANGED <<scaler, reach_model, click_model, model_performance,
                   trainData, trainBefore, trainCalls, stable, predictVars>>

\* lines 550-554 and 575-577
TrainReach ==
    /\ UNCHANGED <<schedulerVars, analysisVars>>
    /\ trainPc = "reach"
    /\ reach_model' = FitInPlace(reach_model, trainCalls, trainData.yReachBad)
    /\ IF trainData.yReachBad
       THEN trainResult' = "error" /\ trainPc' = "done"
       ELSE trainPc' = "click" /\ UNCHANGED trainResult
    /\ UNCHANGED <<scaler, engagement_model, click_model, model_performance,
                   trainData, trainBefore, trainCalls, stable, predictVars>>

\* lines 556-560 and 575-577
TrainClick ==
    /\ UNCHANGED <<schedulerVars, analysisVars>>
    /\ trainPc = "click"
    /\ click_model' = FitInPlace(click_model, trainCalls, trainData.yClicksBad)
    /\ IF trainData.yClicksBad
       THEN trainResult' = "error" /\ trainPc' = "done"
       ELSE trainPc' = "track" /\ UNCHANGED trainResult
    /\ UNCHANGED <<scaler, engagement_model, reach_model, model_performance,
                   trainData, trainBefore, trainCalls, stable, predictVars>>

\* lines 562-573: accuracy and last_trained of the three metrics
TrainTrack ==
    /\ UNCHANGED <<schedulerVars, analysisVars>>
    /\ trainPc = "track"
    /\ model_performance' = [m \in Metrics |-> trainCalls]
    /\ trainResult' = "ok"
    /\ trainPc' = "done"
    /\ UNCHANGED <<paramVars, trainData, trainBefore, trainCalls, stable, predictVars>>

\* line 579 (or the propagated exception): the call is over
TrainReturn ==
    /\ UNCHANGED <<schedulerVars, analysisVars>>
    /\ trainPc = "done"
    /\ trainPc' = "idle"
    /\ stable' = stable \cup {Params}
    /\ UNCHANGED <<paramVars, model_performance, trainData, trainBefore, trainResult,
                   trainCalls, predictVars>>

\* lines 601-606: entry; X = self._features_to_array([features])
PredictCall ==
    /\ UNCHANGED <<schedulerVars, analysisVars>>
    /\ predPc = "idle"
    /\ predPc' = "transform"
    /\ predRead' = <<>>
    /\ predResult' = "none"
    /\ UNCHANGED <<paramVars, model_performance, trainPc, trainData, trainBefore,
                   trainResult, trainCalls, stable>>

\* a prediction that calls fit_transform and so refits the scaler
PredictTransformRefits ==
    /\ UNCHANGED <<schedulerVars, analysisVars>>
    /\ predPc = "transform"
    /\ scaler' = MaxTrainCalls + 1
    /\ predRead' = <<scaler'>>
    /\ predPc' = "engagement"
    /\ UNCHANGED <<predResult, engagement_model, reach_model, click_model,
                   model_performance, trainPc, trainData, trainBefore,
                   trainResult, trainCalls, stable>>

\* line 606: X_scaled = self.scaler.transform(X), outside the try block;
\* an unfitted scaler raises NotFittedError
PredictTransform ==
    /\ UNCHANGED <<schedulerVars, analysisVars>>
    /\ predPc = "transform"
    /\ IF scaler = Unfitted
       THEN /\ predResult' = "raised"
            /\ predPc' = "done"
            /\ UNCHANGED predRead
       ELSE /\ predRead' = <<scaler>>
            /\ predPc' = "engagement"
            /\ UNCHANGED predResult
    /\ UNCHANGED <<paramVars, model_performance, trainPc, trainData, trainBefore,
                   trainResult, trainCalls, stable>>

\* lines 611-612, 614-615, 617-618: each model is used if it has coef_
PredictModel(here, model, next) ==
    /\ UNCHANGED <<schedulerVars, analysisVars>>
    /\ predPc = here
    /\ predRead' = Append(predRead, model)
    /\ predPc' = next
    /\ UNCHANGED <<predResult, paramVars, model_performance, trainPc, trainData,
                   trainBefore, trainResult, trainCalls, stable>>

PredictEngagement == PredictModel("engagement", engagement_model, "reach")
PredictReach == PredictModel("reach", reach_model, "click")
PredictClick == PredictModel("click", click_model, "score")

\* lines 620-629: overall_score only if some model gave a prediction
PredictScore ==
    /\ UNCHANGED <<schedulerVars, analysisVars>>
    /\ predPc = "score"
    /\ predResult' = IF \E i \in 2..4 : predRead[i] # Unfitted THEN "scored" ELSE "empty"
    /\ predPc' = "done"
    /\ UNCHANGED <<predRead, paramVars, model_performance, trainPc, trainData,
                   trainBefore, trainResult, trainCalls, stable>>

PredictReturn ==
    /\ UNCHANGED <<schedulerVars, analysisVars>>
    /\ predPc = "done"
    /\ predPc' = "idle"
    /\ UNCHANGED <<predRead, predResult, paramVars, model_performance, trainPc, trainData,
                   trainBefore, trainResult, trainCalls, stable>>

(***************************************************************************)
(* ContentOptimizationEngine.get_content_optimization_suggestions          *)
(*                                                                         *)
(* Scores are in hundredths (overall_score 0.5 is 50), target_improvement  *)
(* in hundredths too (0.2 is 20), expected_improvement in tenths of a      *)
(* percent, as the "%.1f" format prints it.                                *)
(***************************************************************************)

\* lines 20-32: ContentFeatures is a dataclass
ContentFeatures == [object |-> "dataclass"]

\* _replace is a method of namedtuple instances, not of dataclass instances
HasReplace(obj) == obj.object = "namedtuple"

\* lines 606-629 in one step, for the calls made by the suggestion routine:
\* the empty dict when no model is fitted, else a dict with overall_score
PredictContentPerformance(params, score) ==
    IF params[1] = Unfitted THEN Raised("NotFittedError")
    ELSE IF \E i \in 2..4 : params[i] # Unfitted
         THEN Returned(<<score>>)
         ELSE Returned(<<>>)

\* .get("overall_score", 0.5)
DefaultScore == 50

OverallScoreOf(prediction) ==
    IF prediction.value = <<>> THEN DefaultScore ELSE prediction.value[1]

\* lines 647-665: the eleven single-field variants, in list order
Variants ==
    << [field |-> "posting_hour", value |-> 9],
       [field |-> "posting_hour", value |-> 12],
       [field |-> "posting_hour", value |-> 18],
       [field |-> "caption_length", value |-> 150],
       [field |-> "caption_length", value |-> 200],
       [field |-> "has_image", value |-> 1],
       [field |-> "has_image", value |-> 0],
       [field |-> "hashtag_count", value |-> 3],
       [field |-> "hashtag_count", value |-> 5],
       [field |-> "sentiment_score", value |-> 80],
       [field |-> "sentiment_score", value |-> -20] >>

\* line 671: improvement >= target_improvement, where improvement is
\* (predicted - current) / current, or 0 when current is not positive
MeetsTarget(predicted, current, target) ==
    IF current > 0
    THEN (predicted - current) * 100 >= target * current
    ELSE 0 >= target

\* line 677: f"{improvement * 100:.1f}%", in tenths of a percent (rounded)
ExpectedImprovement(predicted, current) ==
    IF current > 0
    THEN ((predicted - current) * 2000 + current) \div (2 * current)
    ELSE 0

\* line 683: list.sort(key = the printed improvement, reverse=True); the
\* sort is stable, equal keys keep their list order
InsertByImprovement(sorted, x) ==
    LET k == Cardinality({i \in 1..Len(sorted) :
                            sorted[i].expected_improvement >= x.expected_improvement})
    IN  SubSeq(sorted, 1, k) \o <<x>> \o SubSeq(sorted, k + 1, Len(sorted))

RECURSIVE SortByImprovement(_)
SortByImprovement(seq) ==
    IF seq = <<>> THEN <<>>
    ELSE InsertByImprovement(SortByImprovement(SubSeq(seq, 1, Len(seq) - 1)),
                             seq[Len(seq)])

\* line 685
MaxSuggestions == 5

\* lines 667-680: the loop over the variants
RECURSIVE KeptFrom(_, _, _, _, _)
KeptFrom(i, params, scores, current, target) ==
    IF i > Len(Variants) THEN Returned(<<>>)
    ELSE LET predicted_performance == PredictContentPerformance(params, scores[i + 1])
         IN  IF predicted_performance.kind = "raised" THEN predicted_performance
             ELSE LET predicted_score == OverallScoreOf(predicted_performance)
                      rest == KeptFrom(i + 1, params, scores, current, target)
                  IN  IF rest.kind = "raised" THEN rest
                      ELSE IF MeetsTarget(predicted_score, current, target)
                           THEN Returned(<<[suggestion |-> i,
                                            expected_improvement |->
                                                ExpectedImprovement(predicted_score, current),
                                            predicted_score |-> predicted_score]>>
                                         \o rest.value)
                           ELSE rest

\* lines 631-685. scores[1] is the overall score the models give the
\* features, scores[i + 1] the one they give variant i.
GetContentOptimizationSuggestions(params, features, target, scores) ==
    LET current_prediction == PredictContentPerformance(params, scores[1])
    IN  IF current_prediction.kind = "raised" THEN current_prediction
        ELSE IF ~HasReplace(features) THEN Raised("AttributeError")
        ELSE LET current_score == OverallScoreOf(current_prediction)
                 kept == KeptFrom(1, params, scores, current_score, target)
             IN  IF kept.kind = "raised" THEN kept
                 ELSE LET sorted == SortByImprovement(kept.value)
                      IN  Returned(SubSeq(sorted, 1,
                                          IF Len(sorted) < MaxSuggestions
                                          THEN Len(sorted) ELSE MaxSuggestions))

\* target_improvement of the call: the default 0.2, or 0
TargetChoices == {0, 20}

\* overall scores the fitted models give the features and the eleven variants
ScoreTables ==
    { <<50, 50, 60, 70, 80, 90, 100, 40, 59, 61, 75, 0>>,
      <<40, 48, 48, 47, 90, 30, 48, 48, 100, 48, 10, 49>> }

\* routes/content.py 387-409 calls it with a ContentFeatures instance; the
\* caller that predicts is the caller that asks for suggestions
Suggest(target, scores) ==
    /\ predPc = "idle"
    /\ suggestions' = [kind |-> "called",
                       engine |-> Params,
                       target |-> target,
                       scores |-> scores,
                       result |-> GetContentOptimizationSuggestions(
                                      Params, ContentFeatures, target, scores)]
    /\ UNCHANGED <<paramVars, model_performance, trainPc, trainData, trainBefore,
                   trainResult, trainCalls, stable, predictVars,
                   posts_data, analysis, schedulerVars>>

NextPredictor ==
    \/ \E d \in TrainInputs : TrainCall(d)
    \/ TrainScale
    \/ TrainEngagement
    \/ TrainReach
    \/ TrainClick
    \/ TrainTrack
    \/ TrainReturn
    \/ PredictCall
    \/ PredictTransform
    \/ PredictEngagement
    \/ PredictReach
    \/ PredictClick
    \/ PredictScore
    \/ PredictReturn

InitEngine == InitPredictor /\ IdleScheduler

SpecPredictor == InitEngine /\ [][NextPredictor]_vars

(***************************************************************************)
(* The engine in use by a caller that predicts and asks for suggestions,   *)
(* while no training runs: it starts as __init__ or some earlier training  *)
(* call left it.                                                           *)
(***************************************************************************)

\* what train_predictive_models leaves behind: nothing, a full fit (with
\* its bookkeeping), or the fits made before one of the models failed
EnginesAtRest ==
    { [params |-> <<Unfitted, Unfitted, Unfitted, Unfitted>>, tracked |-> Unfitted, calls |-> 0],
      [params |-> <<1, 1, 1, 1>>, tracked |-> 1, calls |-> 1],
      [params |-> <<1, Unfitted, Unfitted, Unfitted>>, tracked |-> Unfitted, calls |-> 1],
      [params |-> <<1, 1, 1, Unfitted>>, tracked |-> Unfitted, calls |-> 1],
      [params |-> <<2, 2, 2, 2>>, tracked |-> 2, calls |-> 2] }

InitAdvisor ==
    /\ \E e \in EnginesAtRest :
        /\ scaler = e.params[1]
        /\ engagement_model = e.params[2]
        /\ reach_model = e.params[3]
        /\ click_model = e.params[4]
        /\ model_performance = [m \in Metrics |-> e.tracked]
        /\ trainCalls = e.calls
        /\ stable = {e.params}
    /\ trainPc = "idle"
    /\ trainData = NoData
    /\ trainBefore = <<Unfitted, Unfitted, Unfitted, Unfitted>>
    /\ trainResult = "none"
    /\ predPc = "idle"
    /\ predRead = <<>>
    /\ predResult = "none"
    /\ suggestions = NoOutcome
    /\ posts_data = <<>>
    /\ analysis = NoOutcome
    /\ IdleScheduler

NextAdvisor ==
    \/ PredictCall
    \/ PredictTransform
    \/ PredictEngagement
    \/ PredictReach
    \/ PredictClick
    \/ PredictScore
    \/ PredictReturn
    \/ \E target \in TargetChoices, scores \in ScoreTables : Suggest(target, scores)

SpecAdvisor == InitAdvisor /\ [][NextAdvisor]_vars

(***************************************************************************)
(* ContentOptimizationEngine.analyze_content_performance                   *)
(*                                                                         *)
(* A post of posts_data is reduced to what the caption-length and image    *)
(* analyses read: whether its extraction succeeds (valid), has_image,      *)
(* caption_length and the engagement rate, an integer number of percent.   *)
(* Its posting time, hashtags, sentiment and relevance are left at the     *)
(* defaults of _extract_content_features. A mean is kept as the exact      *)
(* fraction num / den.                                                     *)
(***************************************************************************)

\* a guard that asks for only 5 posts
TooFewPostsLax(posts) == Len(posts) < 5

\* line 79
TooFewPosts(posts) == Len(posts) < 10

\* lines 86-95: a post whose extraction raises is skipped
ExtractFeatures(posts) == SelectSeq(posts, LAMBDA p : p.valid)

\* line 97
TooFewValid(features) == Len(features) < 5

RECURSIVE SumSeq(_)
SumSeq(seq) == IF seq = <<>> THEN 0 ELSE seq[1] + SumSeq(Tail(seq))

EngagementRates(features) == [i \in 1..Len(features) |-> features[i].engagement_rate]

\* np.mean(rates) if rates else 0
MeanOrZero(rates) ==
    IF rates = <<>> THEN [num |-> 0, den |-> 1]
    ELSE [num |-> SumSeq(rates), den |-> Len(rates)]

MeanLess(a, b) == a.num * b.den < b.num * a.den

\* lines 309-314
LengthBuckets ==
    << [bucket |-> "short", min_len |-> 0, max_len |-> 100],
       [bucket |-> "medium", min_len |-> 100, max_len |-> 200],
       [bucket |-> "long", min_len |-> 200, max_len |-> 300],
       [bucket |-> "very_long", min_len |-> 300, max_len |-> 1000] >>

\* lines 318-322: the first bucket with min_len <= caption_length < max_len
InBucket(b, caption_length) ==
    LengthBuckets[b].min_len <= caption_length /\ caption_length < LengthBuckets[b].max_len

\* lines 340-347: only buckets that received a post appear
CaptionLengthAnalysis(features) ==
    LET present == {b \in 1..Len(LengthBuckets) :
                      \E i \in 1..Len(features) : InBucket(b, features[i].caption_length)}
        rates(b) == EngagementRates(
                        SelectSeq(features, LAMBDA f : InBucket(b, f.caption_length)))
    IN  [b \in present |-> [bucket |-> LengthBuckets[b].bucket,
                            avg_engagement |-> MeanOrZero(rates(b)),
                            post_count |-> Len(rates(b))]]

\* lines 330-335, 354-362
ImageImpact(features) ==
    LET with_image == EngagementRates(SelectSeq(features, LAMBDA f : f.has_image))
        without_image == EngagementRates(SelectSeq(features, LAMBDA f : ~f.has_image))
    IN  [with_image |-> [avg_engagement |-> MeanOrZero(with_image),
                         post_count |-> Len(with_image)],
         without_image |-> [avg_engagement |-> MeanOrZero(without_image),
                            post_count |-> Len(without_image)]]

\* a comparison that also fires at a lift of exactly 20%
ImageLiftAtLeast(with_image_eng, without_image_eng) ==
    with_image_eng.num * without_image_eng.den * 10
        >= without_image_eng.num * with_image_eng.den * 12

\* line 465: with_image_eng > without_image_eng * 1.2
ImageLift(with_image_eng, without_image_eng) ==
    with_image_eng.num * without_image_eng.den * 10
        > without_image_eng.num * with_image_eng.den * 12

\* lines 445-449: max over the dict items, the first of the best in
\* insertion order, which is the order of each bucket's first post
BestLength(features, length_analysis) ==
    LET first(b) == CHOOSE i \in 1..Len(features) :
                        /\ InBucket(b, features[i].caption_length)
                        /\ \A j \in 1..(i - 1) : ~InBucket(b, features[j].caption_length)
        best == CHOOSE b \in DOMAIN length_analysis :
                    \A c \in DOMAIN length_analysis :
                        \/ MeanLess(length_analysis[c].avg_engagement,
                                    length_analysis[b].avg_engagement)
                        \/ /\ ~MeanLess(length_analysis[b].avg_engagement,
                                         length_analysis[c].avg_engagement)
                           /\ first(b) <= first(c)
    IN  length_analysis[best].bucket

\* lines 419-508: the recommendations in the order they are appended. With
\* five or more posts at hour 12, without hashtags and of sentiment 0.0,
\* best_hours, hashtag_analysis and sentiment_impact are never empty.
GenerateOptimizationRecommendations(features, length_analysis, image_impact) ==
    <<[type |-> "posting_time", about |-> "12"]>>
    \o (IF DOMAIN length_analysis # {}
        THEN <<[type |-> "content_length",
                about |-> BestLength(features, length_analysis)]>>
        ELSE <<>>)
    \o (IF ImageLift(image_impact.with_image.avg_engagement,
                     image_impact.without_image.avg_engagement)
        THEN <<[type |-> "visual_content", about |-> "images"]>>
        ELSE <<>>)
    \o <<[type |-> "hashtags", about |-> "0"]>>
    \o <<[type |-> "content_tone", about |-> "neutral"]>>

\* lines 72-115
AnalyzeContentPerformance(posts) ==
    IF TooFewPosts(posts)
    THEN [kind |-> "error",
          error |-> "Insufficient data for analysis (minimum 10 posts required)"]
    ELSE LET features_list == ExtractFeatures(posts)
         IN  IF TooFewValid(features_list)
             THEN [kind |-> "error", error |-> "Insufficient valid data for analysis"]
             ELSE LET length_analysis == CaptionLengthAnalysis(features_list)
                      image_impact == ImageImpact(features_list)
                  IN  [kind |-> "report",
                       total_posts_analyzed |-> Len(features_list),
                       caption_length_analysis |-> length_analysis,
                       image_impact |-> image_impact,
                       optimization_recommendations |->
                           GenerateOptimizationRecommendations(
                               features_list, length_analysis, image_impact)]

(***************************************************************************)
(* The analysis in use: posts_data is a run of posts with an image, a run  *)
(* of posts without one, possibly one more post, and a run of posts whose  *)
(* extraction fails.                                                       *)
(***************************************************************************)

Post(has_image, engagement_rate, caption_length, valid) ==
    [has_image |-> has_image, engagement_rate |-> engagement_rate,
     caption_length |-> caption_length, valid |-> valid]

PostRun(n, post) == [i \in 1..n |-> post]

WithImageRates == {0, 6, 10, 12}
WithoutImageRates == {0, 5, 10}
WithImageLengths == {50, 1000}
WithoutImageLengths == {150, 300}
BrokenCounts == {0, 6}
ExtraPosts == {<<>>, <<Post(TRUE, 0, 250, TRUE)>>, <<Post(FALSE, 20, 250, TRUE)>>}

PostsData ==
    { PostRun(cw, Post(TRUE, rw, lw, TRUE)) \o PostRun(co, Post(FALSE, ro, lo, TRUE))
          \o extra \o PostRun(cb, Post(FALSE, 0, 0, FALSE)) :
        cw \in 0..MaxImageRun, rw \in WithImageRates, lw \in WithImageLengths,
        co \in 0..MaxImageRun, ro \in WithoutImageRates, lo \in WithoutImageLengths,
        extra \in ExtraPosts, cb \in BrokenCounts }

InitAnalysis ==
    /\ scaler = Unfitted
    /\ engagement_model = Unfitted
    /\ reach_model = Unfitted
    /\ click_model = Unfitted
    /\ model_performance = InitialPerformance
    /\ trainPc = "idle"
    /\ trainData = NoData
    /\ trainBefore = <<Unfitted, Unfitted, Unfitted, Unfitted>>
    /\ trainResult = "none"
    /\ trainCalls = 0
    /\ predPc = "idle"
    /\ predRead = <<>>
    /\ predResult = "none"
    /\ stable = {<<Unfitted, Unfitted, Unfitted, Unfitted>>}
    /\ suggestions = NoOutcome
    /\ posts_data \in PostsData
    /\ analysis = NoOutcome
    /\ IdleScheduler

\* routes/analytics.py 488-510: a fresh engine analyses the posts of a page
Analyze ==
    /\ analysis = NoOutcome
    /\ analysis' = AnalyzeContentPerformance(posts_data)
    /\ UNCHANGED <<paramVars, model_performance, trainPc, trainData, trainBefore,
                   trainResult, trainCalls, stable, predictVars,
                   suggestions, posts_data, schedulerVars>>

NextAnalysis == Analyze

SpecAnalysis == InitAnalysis /\ [][NextAnalysis]_vars

(***************************************************************************)
(* ContentScheduler: calendar arithmetic                                   *)
(***************************************************************************)
Hours(h) == h * 60
Days(d) == d * 1440
Abs(x) == IF x < 0 THEN -x ELSE x

Regions == {"US", "UK"}

\* The predictor at rest: nothing trained, no call in progress
IdlePredictor == InitPredictor

\* pytz zone of the region (config.py TIMEZONE_US = America/New_York,
\* TIMEZONE_UK = Europe/London): offset of local time from UTC
UtcOffset(r) ==
    (IF r = "US" THEN -Hours(5) ELSE 0) + (IF dst THEN Hours(1) ELSE 0)

\* t.astimezone(regional_tz), as minutes of the region's wall clock
AsLocal(r, t) == t + UtcOffset(r)
LocalDay(r, t) == AsLocal(r, t) \div Days(1)
\* datetime.weekday(): Monday = 0 ... Sunday = 6
LocalWeekday(r, t) == LocalDay(r, t) % 7
LocalHour(r, t) == (AsLocal(r, t) % Days(1)) \div Hours(1)

\* self.optimal_posting_times
OptimalPostingTimes(r, time_key) ==
    IF r = "US"
    THEN IF time_key = "weekday" THEN <<9, 12, 15, 18, 21>> ELSE <<10, 13, 16, 19, 20>>
    ELSE IF time_key = "weekday" THEN <<8, 12, 17, 19, 21>> ELSE <<9, 12, 15, 18, 20>>

\* self.posting_limits
MinIntervalHours == 2
MaxDailyPosts == 6
MaxWeeklyPosts == 30

Sorted(seq) == SortSeq(seq, LAMBDA a, b : a < b)

(***************************************************************************)
(* ContentScheduler.get_optimal_posting_times                              *)
(***************************************************************************)
\* Line 54 binds the local name `timezone` to self.regional_timezones[region],
\* a pytz tzinfo; within the function the name no longer denotes the class
\* datetime.timezone imported at line 2.
TimezoneName(r) == [object |-> "pytz_tzinfo", zone |-> r]

\* Only the class datetime.timezone has the attribute utc; a pytz tzinfo
\* has none, and reading it raises AttributeError.
HasUtc(obj) == obj.object = "datetime_timezone"

\* lines 58-62
OptimalHours(r, target, prefs) ==
    LET is_weekend == LocalWeekday(r, target) >= 5
        time_key == IF is_weekend THEN "weekend" ELSE "weekday"
    IN  IF prefs # <<>> THEN prefs ELSE OptimalPostingTimes(r, time_key)

\* lines 67-72: local_date.replace(hour, minute, second=0, microsecond=0),
\* which keeps the tzinfo (and so the offset) of local_date
OptimalLocalTime(r, target, hour, minute) ==
    Days(LocalDay(r, target)) + Hours(hour) + minute

\* lines 54-78; minutes[i] is the random minute drawn for the i-th hour.
\* Line 75 evaluates timezone.utc for every hour of the list.
GetOptimalPostingTimes(r, target, prefs, minutes) ==
    LET optimal_hours == OptimalHours(r, target, prefs)
        utc_time(i) == OptimalLocalTime(r, target, optimal_hours[i], minutes[i]) - UtcOffset(r)
    IN  IF optimal_hours # <<>> /\ ~HasUtc(TimezoneName(r))
        THEN Raised("AttributeError")
        ELSE Returned(Sorted([i \in 1..Len(optimal_hours) |-> utc_time(i)]))

(***************************************************************************)
(* ContentScheduler.calculate_next_posting_slot                            *)
(***************************************************************************)
\* lines 121-135
IsSlotAvailable(proposed_time, existing, min_gap_hours) ==
    \A existing_time \in existing :
        ~(Abs(proposed_time - existing_time) < Hours(min_gap_hours))

\* lines 103-110: index of the first candidate that is kept, 0 if none
FirstAccepted(times, now_utc, existing) ==
    LET ok == {i \in 1..Len(times) :
                 /\ ~(times[i] <= now_utc)
                 /\ IsSlotAvailable(times[i], existing, 2)}
    IN  IF ok = {} THEN 0 ELSE CHOOSE i \in ok : \A j \in ok : i <= j

\* lines 137-161
AdjustToOptimalTime(base_time, r, prefs, minutes) ==
    LET got == GetOptimalPostingTimes(r, base_time, prefs, minutes)
        times == got.value
        best == CHOOSE i \in 1..Len(times) :
                    /\ \A j \in 1..Len(times) :
                          Abs(times[i] - base_time) <= Abs(times[j] - base_time)
                    /\ \A j \in 1..(i - 1) :
                          Abs(times[j] - base_time) > Abs(times[i] - base_time)
    IN  IF got.kind = "raised" THEN got
        ELSE IF times = <<>> THEN [kind |-> "fallback", value |-> base_time]
        ELSE [kind |-> "fallback", value |-> times[best]]

SetMax(S) == CHOOSE x \in S : \A y \in S : y <= x

\* lines 112-119
FallbackSlot(r, existing, frequency, prefs, now_utc, minutes) ==
    LET next == IF existing # {}
                THEN SetMax(existing) + Hours(frequency)
                ELSE now_utc + Hours(1)
    IN  AdjustToOptimalTime(next, r, prefs, minutes)

\* lines 92-110, from day days_ahead on
RECURSIVE SearchFrom(_, _, _, _, _, _, _)
SearchFrom(days_ahead, r, existing, frequency, prefs, now_utc, minutes) ==
    IF days_ahead = 7
    THEN FallbackSlot(r, existing, frequency, prefs, now_utc, minutes)
    ELSE LET got == GetOptimalPostingTimes(r, now_utc + Days(days_ahead), prefs, minutes)
             i == FirstAccepted(got.value, now_utc, existing)
         IN  IF got.kind = "raised" THEN got
             ELSE IF i # 0 THEN [kind |-> "accepted", value |-> got.value[i]]
             ELSE SearchFrom(days_ahead + 1, r, existing, frequency, prefs, now_utc, minutes)

\* lines 80-119
CalculateNextPostingSlot(r, existing, frequency, prefs, now_utc, minutes) ==
    SearchFrom(0, r, existing, frequency, prefs, now_utc, minutes)


(***************************************************************************)
(* The slot allocator in use: a page of some region, a clock value, and    *)
(* calls of get_optimal_posting_times and calculate_next_posting_slot      *)
(***************************************************************************)
\* Clock values: Tuesday 03:00 UTC (still Monday evening in New York),
\* Friday 23:30 UTC (already Saturday in London in summer), Saturday 14:00
NowChoices == {Days(1) + Hours(3), Days(4) + Hours(23) + 30, Days(5) + Hours(14)}

\* page.optimal_posting_times: none, or a list of hours in any order
PreferenceChoices == {<<>>, <<14>>, <<20, 7>>}

\* the random minute of each of up to five hours
JitterChoices ==
    {[i \in 1..5 |-> 0], [i \in 1..5 |-> 59], [i \in 1..5 |-> IF i % 2 = 1 THEN 59 ELSE 0]}

\* target dates, relative to the clock
TargetOffsets == {0, Hours(2), Days(1), Days(3) + Hours(22)}

\* already committed posts, relative to the clock
ExistingOffsets == {-Hours(1), Hours(5) + 30, Hours(7), Days(1) + Hours(6)}

PreferredFrequencyHours == 6

InitPage ==
    /\ region \in Regions
    /\ dst \in BOOLEAN
    /\ now \in NowChoices

InitAllocator ==
    /\ IdlePredictor
    /\ InitPage
    /\ target_date = 0
    /\ page_preferences = <<>>
    /\ optimal_times = NoOutcome
    /\ jitter = <<>>
    /\ existing_posts = {}
    /\ next_slot = NoOutcome
    /\ proposed_schedule = <<>>
    /\ validation_results = NoOutcome
    /\ validated = <<>>
    /\ scheduled_times = <<>>
    /\ variance_random = NoRandom
    /\ varied_times = NoOutcome
    /\ posting_frequency = NoOutcome
    /\ generated_schedule = NoOutcome
    /\ optimized_schedule = NoOutcome
    /\ scheduled_posts = <<>>
    /\ requests = <<>>

\* a call of get_optimal_posting_times(region, target_date, page_preferences)
ComputeOptimalTimes ==
    \E off \in TargetOffsets, prefs \in PreferenceChoices, minutes \in JitterChoices :
        /\ target_date' = now + off
        /\ page_preferences' = prefs
        /\ jitter' = minutes
        /\ optimal_times' = GetOptimalPostingTimes(region, now + off, prefs, minutes)
        /\ UNCHANGED <<predictorVars, pageVars, slotVars, validateVars, varianceVars, plannerVars, routeVars>>

\* a page booked at every optimal time of the seven days the search covers
FullyBooked(r, prefs, now_utc, minutes) ==
    UNION { LET target == now_utc + Days(d)
                optimal_hours == OptimalHours(r, target, prefs)
            IN  {OptimalLocalTime(r, target, optimal_hours[i], minutes[i]) - UtcOffset(r) :
                    i \in 1..Len(optimal_hours)} :
            d \in 0..6 }

\* a call of calculate_next_posting_slot(region, existing_posts,
\* preferred_frequency_hours, page_preferences)
NextAvailableSlot ==
    \E booked \in BOOLEAN, prefs \in PreferenceChoices, minutes \in JitterChoices :
    \E offs \in IF booked THEN {{}} ELSE SUBSET ExistingOffsets :
        LET existing == IF booked
                        THEN FullyBooked(region, prefs, now, minutes)
                        ELSE {now + o : o \in offs}
        IN  /\ existing_posts' = existing
            /\ page_preferences' = prefs
            /\ jitter' = minutes
            /\ next_slot' = CalculateNextPostingSlot(region, existing, PreferredFrequencyHours,
                                                     prefs, now, minutes)
            /\ UNCHANGED <<predictorVars, pageVars, target_date, optimal_times,
                           validateVars, varianceVars, plannerVars, routeVars>>

NextAllocator ==
    \/ ComputeOptimalTimes
    \/ NextAvailableSlot

SpecAllocator == InitAllocator /\ [][NextAllocator]_vars


(***************************************************************************)
(* ContentScheduler.validate_posting_schedule                              *)
(***************************************************************************)
\* line 245 with < in place of <=: an instant equal to now counts as future
PastTimesStrict(schedule, now_utc) == SelectSeq(schedule, LAMBDA t : t < now_utc)

\* line 245
PastTimes(schedule, now_utc) == SelectSeq(schedule, LAMBDA t : t <= now_utc)

\* line 255: scheduled_time.date(), the calendar date of the instant as it
\* is given, which for a UTC instant is its UTC date
DateKey(t) == t \div Days(1)

\* lines 253-256
DailyCounts(schedule) ==
    [d \in {DateKey(schedule[i]) : i \in 1..Len(schedule)} |->
        Cardinality({i \in 1..Len(schedule) : DateKey(schedule[i]) = d})]

\* line 259
OverLimitDays(schedule) ==
    {d \in DOMAIN DailyCounts(schedule) : DailyCounts(schedule)[d] > MaxDailyPosts}

\* line 271 with <= in place of <: a pair exactly the interval apart is warned
RECURSIVE IntervalWarningsInclusive(_, _)
IntervalWarningsInclusive(sorted_times, i) ==
    IF i > Len(sorted_times) THEN <<>>
    ELSE (IF (sorted_times[i] - sorted_times[i - 1]) <= Hours(MinIntervalHours)
          THEN <<[kind |-> "too_close", first |-> sorted_times[i - 1], second |-> sorted_times[i]]>>
          ELSE <<>>)
         \o IntervalWarningsInclusive(sorted_times, i + 1)

\* lines 267-274: one warning per adjacent pair of the sorted copy
RECURSIVE IntervalWarnings(_, _)
IntervalWarnings(sorted_times, i) ==
    IF i > Len(sorted_times) THEN <<>>
    ELSE (IF (sorted_times[i] - sorted_times[i - 1]) < Hours(MinIntervalHours)
          THEN <<[kind |-> "too_close", first |-> sorted_times[i - 1], second |-> sorted_times[i]]>>
          ELSE <<>>)
         \o IntervalWarnings(sorted_times, i + 1)

\* line 277
WeeklyCount(schedule, now_utc) ==
    Len(SelectSeq(schedule, LAMBDA t : t <= now_utc + Days(7)))

\* lines 287-297
SuboptimalTimes(r, schedule) ==
    SelectSeq(schedule,
              LAMBDA t : LET is_weekday == LocalWeekday(r, t) < 5
                             time_key == IF is_weekday THEN "weekday" ELSE "weekend"
                             optimal_hours == OptimalPostingTimes(r, time_key)
                         IN  \A j \in 1..Len(optimal_hours) : LocalHour(r, t) # optimal_hours[j])

\* lines 236-304: the report
ValidatePostingSchedule(r, schedule, now_utc) ==
    LET past_times == PastTimes(schedule, now_utc)
        over_limit_days == OverLimitDays(schedule)
        sorted_times == Sorted(schedule)
        weekly_count == WeeklyCount(schedule, now_utc)
        suboptimal_times == SuboptimalTimes(r, schedule)
    IN  [kind |-> "report",
         is_valid |-> (past_times = <<>>),
         errors |-> IF past_times # <<>>
                    THEN <<[kind |-> "in_the_past", count |-> Len(past_times)]>>
                    ELSE <<>>,
         warnings |->
            (IF over_limit_days # {}
             THEN <<[kind |-> "daily_limit", days |-> Cardinality(over_limit_days),
                     limit |-> MaxDailyPosts]>>
             ELSE <<>>)
            \o IntervalWarnings(sorted_times, 2)
            \o (IF weekly_count > MaxWeeklyPosts
                THEN <<[kind |-> "weekly_limit", limit |-> MaxWeeklyPosts]>>
                ELSE <<>>),
         suggested_adjustments |->
            IF suboptimal_times # <<>>
            THEN <<[kind |-> "outside_optimal", count |-> Len(suboptimal_times)]>>
            ELSE <<>>]

\* line 268 as an in-place sort of the argument (proposed_schedule.sort())
CallerScheduleSortedInPlace(schedule) == Sorted(schedule)

\* The caller's list after the call: the function reads proposed_schedule in
\* comprehensions and loops (245, 254, 277, 287) and sorts a copy of it
\* (268, sorted()); it never assigns to it or calls a mutating method on it.
CallerScheduleAfter(schedule) == schedule

\* proposed schedules: up to MaxPrefix instants in any order, followed by up
\* to MaxRun instants at a fixed spacing
HeadOffsets == {-Hours(1), 0, Hours(3)}
RunStartOffsets == {-Hours(2), Hours(1), Days(7) - Hours(3)}
RunSteps == {Hours(1), Hours(2)}

Heads(clock) ==
    UNION {[1..k -> {clock + o : o \in HeadOffsets}] : k \in 0..MaxPrefix}

Run(start, step, n) == [i \in 1..n |-> start + (i - 1) * step]

ProposedSchedules(clock) ==
    {head \o Run(clock + start, step, n) :
        head \in Heads(clock), start \in RunStartOffsets, step \in RunSteps, n \in 0..MaxRun}

InitValidator ==
    /\ IdlePredictor
    /\ InitPage
    /\ target_date = 0
    /\ page_preferences = <<>>
    /\ optimal_times = NoOutcome
    /\ jitter = <<>>
    /\ existing_posts = {}
    /\ next_slot = NoOutcome
    /\ proposed_schedule \in ProposedSchedules(now)
    /\ validation_results = NoOutcome
    /\ validated = <<>>
    /\ scheduled_times = <<>>
    /\ variance_random = NoRandom
    /\ varied_times = NoOutcome
    /\ posting_frequency = NoOutcome
    /\ generated_schedule = NoOutcome
    /\ optimized_schedule = NoOutcome
    /\ scheduled_posts = <<>>
    /\ requests = <<>>

\* a call of validate_posting_schedule(facebook_page, proposed_schedule)
Validate ==
    /\ validation_results' = ValidatePostingSchedule(region, proposed_schedule, now)
    /\ proposed_schedule' = CallerScheduleAfter(proposed_schedule)
    /\ validated' = <<proposed_schedule, now>>
    /\ UNCHANGED <<predictorVars, pageVars, optimalVars, slotVars, varianceVars, plannerVars, routeVars>>

NextValidator == Validate

SpecValidator == InitValidator /\ [][NextValidator]_vars


(***************************************************************************)
(* ContentScheduler.add_human_like_variance                                *)
(***************************************************************************)
\* lines 217-223 without the guard of lines 222-223
VariedTimeUnguarded(scheduled_time, variance_minutes, now_utc, delay_minutes) ==
    scheduled_time + variance_minutes

\* lines 217-223: the jittered instant, pushed after the clock reading of
\* this iteration if it is not later than it
VariedTime(scheduled_time, variance_minutes, now_utc, delay_minutes) ==
    LET varied_time == scheduled_time + variance_minutes
    IN  IF varied_time <= now_utc THEN now_utc + delay_minutes ELSE varied_time

\* lines 213-227; draws[i] = <<random.randint(-30, 30), random.randint(5, 15)>>
\* of iteration i, clock[i] the value datetime.now gives in iteration i
AddHumanLikeVariance(times, draws, clock) ==
    Sorted([i \in 1..Len(times) |-> VariedTime(times[i], draws[i][1], clock[i], draws[i][2])])

VarianceChoices == {-30, 30}
DelayChoices == {5, 15}
\* minutes that pass between two iterations of the loop
ElapsedChoices == {0, 2}
\* instants handed in, relative to the clock: past, now, near and far future
ScheduledOffsets == {-30, 0, 20, 31}

InitVariance ==
    /\ IdlePredictor
    /\ region = "US"
    /\ dst = FALSE
    /\ now \in NowChoices
    /\ target_date = 0
    /\ page_preferences = <<>>
    /\ optimal_times = NoOutcome
    /\ jitter = <<>>
    /\ existing_posts = {}
    /\ next_slot = NoOutcome
    /\ proposed_schedule = <<>>
    /\ validation_results = NoOutcome
    /\ validated = <<>>
    /\ scheduled_times \in UNION {[1..k -> {now + o : o \in ScheduledOffsets}] : k \in 0..MaxTimes}
    /\ variance_random \in [draws : [1..Len(scheduled_times) -> VarianceChoices \X DelayChoices],
                            elapsed : ElapsedChoices]
    /\ varied_times = NoOutcome
    /\ posting_frequency = NoOutcome
    /\ generated_schedule = NoOutcome
    /\ optimized_schedule = NoOutcome
    /\ scheduled_posts = <<>>
    /\ requests = <<>>

\* a call of add_human_like_variance(scheduled_times) made at clock value now
AddVariance ==
    /\ varied_times' =
          Returned(AddHumanLikeVariance(scheduled_times, variance_random.draws,
                      [i \in 1..Len(scheduled_times) |-> now + (i - 1) * variance_random.elapsed]))
    /\ UNCHANGED <<predictorVars, pageVars, optimalVars, slotVars, validateVars,
                   scheduled_times, variance_random, plannerVars, routeVars>>

NextVariance == AddVariance

SpecVariance == InitVariance /\ [][NextVariance]_vars


(***************************************************************************)
(* ContentScheduler.calculate_posting_frequency                            *)
(*                                                                         *)
(* content_quality_score is in hundredths (0.8 is 80); engagement_history  *)
(* is the sequence of the dict's values, in tenths of a percent (5.0 is    *)
(* 50).                                                                    *)
(***************************************************************************)

Max(a, b) == IF a > b THEN a ELSE b
Min(a, b) == IF a < b THEN a ELSE b

\* line 361
BaseFrequency == 6

\* the follower step with the small-page branch shortening the interval
FrequencyByFollowersSmallFive(page_followers) ==
    IF page_followers > 100000 THEN 4
    ELSE IF page_followers > 50000 THEN 5
    ELSE IF page_followers < 1000 THEN 5
    ELSE BaseFrequency

\* lines 364-369
FrequencyByFollowers(page_followers) ==
    IF page_followers > 100000 THEN 4
    ELSE IF page_followers > 50000 THEN 5
    ELSE IF page_followers < 1000 THEN 8
    ELSE BaseFrequency

\* lines 372-375
FrequencyByQuality(base_frequency, content_quality_score) ==
    IF content_quality_score > 80 THEN Max(2, base_frequency - 1)
    ELSE IF content_quality_score < 50 THEN Min(12, base_frequency + 2)
    ELSE base_frequency

\* the engagement step with the floor of the quality step
FrequencyByEngagementFloorTwo(base_frequency, engagement_history) ==
    IF engagement_history # <<>>
    THEN IF SumSeq(engagement_history) > 50 * Len(engagement_history)
         THEN Max(2, base_frequency - 1)
         ELSE IF SumSeq(engagement_history) < 10 * Len(engagement_history)
              THEN Min(12, base_frequency + 2)
              ELSE base_frequency
    ELSE base_frequency

\* lines 378-383: avg_engagement = sum / len, compared with 5.0 and 1.0
FrequencyByEngagement(base_frequency, engagement_history) ==
    IF engagement_history # <<>>
    THEN IF SumSeq(engagement_history) > 50 * Len(engagement_history)
         THEN Max(3, base_frequency - 1)
         ELSE IF SumSeq(engagement_history) < 10 * Len(engagement_history)
              THEN Min(12, base_frequency + 2)
              ELSE base_frequency
    ELSE base_frequency

\* lines 353-385
CalculatePostingFrequency(page_followers, content_quality_score, engagement_history) ==
    FrequencyByEngagement(
        FrequencyByQuality(FrequencyByFollowers(page_followers), content_quality_score),
        engagement_history)

FollowerChoices == {0, 999, 1000, 50000, 50001, 100000, 100001}
QualityChoices == {0, 49, 50, 80, 81, 100}
HistoryChoices == {<<>>, <<9>>, <<10>>, <<50>>, <<51>>, <<100, 2>>, <<0, 19>>, <<0, 20>>}

InitFrequency == IdlePredictor /\ IdleScheduler

CalculateFrequency ==
    \E page_followers \in FollowerChoices, content_quality_score \in QualityChoices,
       engagement_history \in HistoryChoices :
        /\ posting_frequency' =
               [kind |-> "returned",
                page_followers |-> page_followers,
                content_quality_score |-> content_quality_score,
                engagement_history |-> engagement_history,
                value |-> CalculatePostingFrequency(page_followers, content_quality_score,
                                                    engagement_history)]
        /\ UNCHANGED <<predictorVars, pageVars, optimalVars, slotVars, validateVars,
                       varianceVars, generated_schedule, routeVars>>

NextFrequency == CalculateFrequency

SpecFrequency == InitFrequency /\ [][NextFrequency]_vars


(***************************************************************************)
(* ContentScheduler.generate_posting_schedule                              *)
(*                                                                         *)
(* page_preferences is a dict: a function from the keys it holds; the      *)
(* empty dict and None are both <<>>. sample[k] is the position, in the    *)
(* day's ascending candidates, of the k-th smallest instant that           *)
(* random.sample picks.                                                    *)
(***************************************************************************)

\* dict.get(key, default)
Get(dict, key, default) == IF key \in DOMAIN dict THEN dict[key] ELSE default

\* lines 189-194
SelectedTimes(daily_optimal_times, posts_per_day, sample) ==
    IF Len(daily_optimal_times) > posts_per_day
    THEN Sorted([k \in 1..posts_per_day |-> daily_optimal_times[sample[k]]])
    ELSE daily_optimal_times

\* lines 197-203, from position i on; last_time is <<>> for None
RECURSIVE FilteredTimes(_, _, _, _)
FilteredTimes(selected_times, i, last_time, min_interval) ==
    IF i > Len(selected_times) THEN <<>>
    ELSE IF last_time = <<>> \/ selected_times[i] - last_time[1] >= Hours(min_interval)
         THEN <<selected_times[i]>>
              \o FilteredTimes(selected_times, i + 1, <<selected_times[i]>>, min_interval)
         ELSE FilteredTimes(selected_times, i + 1, last_time, min_interval)

\* lines 180-206: the loop, from current_date on
RECURSIVE ScheduleFrom(_, _, _, _, _, _, _, _)
ScheduleFrom(current_date, r, end_date, posts_per_day, optimal_hours, min_interval, minutes, sample) ==
    IF ~(current_date <= end_date) THEN Returned(<<>>)
    ELSE LET daily_optimal_times ==
                 GetOptimalPostingTimes(r, current_date, optimal_hours, minutes)
         IN  IF daily_optimal_times.kind = "raised" THEN daily_optimal_times
             ELSE LET selected_times == SelectedTimes(daily_optimal_times.value,
                                                      posts_per_day, sample)
                      filtered_times == FilteredTimes(selected_times, 1, <<>>, min_interval)
                      rest == ScheduleFrom(current_date + Days(1), r, end_date,
                                           posts_per_day, optimal_hours, min_interval,
                                           minutes, sample)
                  IN  IF rest.kind = "raised" THEN rest
                      ELSE Returned(filtered_times \o rest.value)

\* lines 163-208
GeneratePostingSchedule(r, start_date, end_date, posts_per_day, preferences, minutes, sample) ==
    LET optimal_hours == Get(preferences, "optimal_posting_times", <<>>)
        min_interval == Get(preferences, "min_interval_hours", MinIntervalHours)
        schedule == ScheduleFrom(start_date, r, end_date, posts_per_day, optimal_hours,
                                 min_interval, minutes, sample)
    IN  IF schedule.kind = "raised" THEN schedule
        ELSE Returned(Sorted(schedule.value))

(***************************************************************************)
(* The schedule generator in use: a page of some region and calls of       *)
(* generate_posting_schedule                                               *)
(***************************************************************************)

\* start_date, relative to the clock: Monday 22:00 and 23:00 in New York
\* for the first clock value
StartOffsets == {0, Hours(1)}

\* end_date - start_date: an empty range, one instant, two hours (over
\* midnight from 23:00), a day, two days and a bit
RangeLengths == {-Hours(1), 0, Hours(2), Days(1), Days(2) + Hours(3)}

PostsPerDayChoices == {1, 3, 6}

\* no preferences, preferred hours only, preferred hours and a longer interval
PagePreferenceChoices ==
    { <<>>,
      [optimal_posting_times |-> <<14, 15, 18>>],
      [optimal_posting_times |-> <<20, 7>>, min_interval_hours |-> 3] }

\* random.sample picks the earliest posts_per_day candidates, or the next ones
SampleChoices(posts_per_day) ==
    {[k \in 1..posts_per_day |-> k], [k \in 1..posts_per_day |-> k + 1]}

InitGenerator ==
    /\ IdlePredictor
    /\ InitPage
    /\ target_date = 0
    /\ page_preferences = <<>>
    /\ optimal_times = NoOutcome
    /\ jitter = <<>>
    /\ existing_posts = {}
    /\ next_slot = NoOutcome
    /\ proposed_schedule = <<>>
    /\ validation_results = NoOutcome
    /\ validated = <<>>
    /\ scheduled_times = <<>>
    /\ variance_random = NoRandom
    /\ varied_times = NoOutcome
    /\ posting_frequency = NoOutcome
    /\ generated_schedule = NoOutcome
    /\ optimized_schedule = NoOutcome
    /\ scheduled_posts = <<>>
    /\ requests = <<>>

GenerateSchedule ==
    \E from \in StartOffsets, length \in RangeLengths, posts_per_day \in PostsPerDayChoices,
       preferences \in PagePreferenceChoices, minutes \in JitterChoices :
    \E sample \in SampleChoices(posts_per_day) :
        /\ generated_schedule' =
               [kind |-> "called",
                start_date |-> now + from,
                end_date |-> now + from + length,
                posts_per_day |-> posts_per_day,
                page_preferences |-> preferences,
                minutes |-> minutes,
                sample |-> sample,
                result |-> GeneratePostingSchedule(region, now + from, now + from + length,
                                                   posts_per_day, preferences, minutes,
                                                   sample)]
        /\ UNCHANGED <<predictorVars, pageVars, optimalVars, slotVars, validateVars,
                       varianceVars, posting_frequency, routeVars>>

NextGenerator == GenerateSchedule

SpecGenerator == InitGenerator /\ [][NextGenerator]_vars


(***************************************************************************)
(* ContentScheduler.optimize_schedule_for_engagement                       *)
(*                                                                         *)
(* historical_performance is the sequence of the dict's items, in          *)
(* insertion order; <<>> stands for None and for {}. minutes[i] is the     *)
(* random minute drawn for the i-th instant of base_schedule.              *)
(***************************************************************************)

\* the name timezone of the module scope: the class datetime.timezone (line 2)
DatetimeTimezone == [object |-> "datetime_timezone"]

\* lines 319-323: sorted(items, key = score, reverse=True); the sort is
\* stable, equal scores keep their dict order
InsertByScore(sorted, x) ==
    LET k == Cardinality({i \in 1..Len(sorted) : sorted[i].score >= x.score})
    IN  SubSeq(sorted, 1, k) \o <<x>> \o SubSeq(sorted, k + 1, Len(sorted))

RECURSIVE SortByScore(_)
SortByScore(items) ==
    IF items = <<>> THEN <<>>
    ELSE InsertByScore(SortByScore(SubSeq(items, 1, Len(items) - 1)), items[Len(items)])

\* line 326
TopHours(historical_performance) ==
    LET sorted_hours == SortByScore(historical_performance)
    IN  [k \in 1..Min(5, Len(sorted_hours)) |-> sorted_hours[k].hour]

\* the best-scoring top hour, whatever its distance
BestHour(top_hours, current_hour) == top_hours[1]

\* line 339: min(top_hours, key = abs(h - current_hour)), the first of the
\* closest in list order
ClosestHour(top_hours, current_hour) ==
    LET k == CHOOSE i \in 1..Len(top_hours) :
                 /\ \A j \in 1..Len(top_hours) :
                       Abs(top_hours[i] - current_hour) <= Abs(top_hours[j] - current_hour)
                 /\ \A j \in 1..(i - 1) :
                       Abs(top_hours[j] - current_hour) > Abs(top_hours[i] - current_hour)
    IN  top_hours[k]

\* lines 332-349, for one instant; minute is the random minute of line 344
OptimizedTime(r, scheduled_time, top_hours, minute) ==
    LET current_hour == LocalHour(r, scheduled_time)
        in_top == \E k \in 1..Len(top_hours) : top_hours[k] = current_hour
    IN  IF ~in_top /\ top_hours # <<>>
        THEN Days(LocalDay(r, scheduled_time))
                 + Hours(ClosestHour(top_hours, current_hour)) + minute - UtcOffset(r)
        ELSE scheduled_time

\* lines 306-351. Line 346 reads timezone.utc of the module-level name.
OptimizeScheduleForEngagement(r, base_schedule, historical_performance, minutes) ==
    IF historical_performance = <<>> THEN Returned(base_schedule)
    ELSE LET top_hours == TopHours(historical_performance)
             moves == \E i \in 1..Len(base_schedule) :
                         OptimizedTime(r, base_schedule[i], top_hours, minutes[i])
                             # base_schedule[i]
         IN  IF moves /\ ~HasUtc(DatetimeTimezone)
             THEN Raised("AttributeError")
             ELSE Returned(Sorted([i \in 1..Len(base_schedule) |->
                     OptimizedTime(r, base_schedule[i], top_hours, minutes[i])]))

(***************************************************************************)
(* The optimiser in use: a page of some region and calls of                *)
(* optimize_schedule_for_engagement                                        *)
(***************************************************************************)

\* instants of a base schedule, relative to the clock
BaseOffsets == {Hours(1), Hours(6) + 20, Hours(13), Days(1) + Hours(2)}

BaseSchedules(clock) ==
    UNION {[1..n -> {clock + o : o \in BaseOffsets}] : n \in 0..MaxBase}

HourScore(hour, score) == [hour |-> hour, score |-> score]

\* no history; three hours, two of them level; seven hours with two level
\* at the fifth place
PerformanceChoices ==
    { <<>>,
      <<HourScore(9, 50), HourScore(12, 70), HourScore(18, 70)>>,
      <<HourScore(3, 10), HourScore(6, 20), HourScore(9, 30), HourScore(12, 30),
        HourScore(15, 40), HourScore(18, 20), HourScore(21, 50)>> }

InitOptimizer ==
    /\ IdlePredictor
    /\ InitPage
    /\ target_date = 0
    /\ page_preferences = <<>>
    /\ optimal_times = NoOutcome
    /\ jitter = <<>>
    /\ existing_posts = {}
    /\ next_slot = NoOutcome
    /\ proposed_schedule = <<>>
    /\ validation_results = NoOutcome
    /\ validated = <<>>
    /\ scheduled_times = <<>>
    /\ variance_random = NoRandom
    /\ varied_times = NoOutcome
    /\ posting_frequency = NoOutcome
    /\ generated_schedule = NoOutcome
    /\ optimized_schedule = NoOutcome
    /\ scheduled_posts = <<>>
    /\ requests = <<>>

OptimizeSchedule ==
    \E base_schedule \in BaseSchedules(now), historical_performance \in PerformanceChoices,
       minutes \in JitterChoices :
        /\ optimized_schedule' =
               [kind |-> "called",
                base_schedule |-> base_schedule,
                historical_performance |-> historical_performance,
                result |-> OptimizeScheduleForEngagement(region, base_schedule,
                                                         historical_performance, minutes)]
        /\ UNCHANGED <<predictorVars, pageVars, optimalVars, slotVars, validateVars,
                       varianceVars, plannerVars, scheduled_posts, requests>>

NextOptimizer == OptimizeSchedule

SpecOptimizer == InitOptimizer /\ [][NextOptimizer]_vars


(***************************************************************************)
(* routes/content.py schedule_content: requests for one page, each a       *)
(* coroutine that may be suspended at every await                          *)
(***************************************************************************)
MaxRequests == 2
RequestIds == 1..MaxRequests

\* schedule_time values a client passes, relative to the clock
ExplicitOffsets == {Hours(3), Hours(4)}

\* a request that has not arrived; schedule_time is {} for None
IdleRequest ==
    [pc |-> "idle", given |-> FALSE, schedule_time |-> {}, existing_times |-> {},
     scheduled_post_id |-> 0, outcome |-> NoOutcome]

InitRoute ==
    /\ IdlePredictor
    /\ InitPage
    /\ target_date = 0
    /\ page_preferences \in PreferenceChoices
    /\ optimal_times = NoOutcome
    /\ jitter = <<>>
    /\ existing_posts = {}
    /\ next_slot = NoOutcome
    /\ proposed_schedule = <<>>
    /\ validation_results = NoOutcome
    /\ validated = <<>>
    /\ scheduled_times = <<>>
    /\ variance_random = NoRandom
    /\ varied_times = NoOutcome
    /\ posting_frequency = NoOutcome
    /\ generated_schedule = NoOutcome
    /\ optimized_schedule = NoOutcome
    /\ scheduled_posts = <<>>
    /\ requests = [i \in RequestIds |-> IdleRequest]

\* lines 286-311: the content item and the page are looked up; without an
\* approved item the request ends with 404; with a schedule_time the
\* request goes on to line 336
Receive ==
    \E i \in RequestIds, approved \in BOOLEAN :
    \E schedule_time \in {{}} \cup {{now + o} : o \in ExplicitOffsets} :
        /\ requests[i].pc = "idle"
        /\ requests' = [requests EXCEPT ![i] =
               IF ~approved
               THEN [@ EXCEPT !.pc = "failed", !.outcome = Raised("HTTP_404_NOT_FOUND")]
               ELSE [@ EXCEPT !.pc = IF schedule_time = {} THEN "read" ELSE "create",
                              !.given = schedule_time # {},
                              !.schedule_time = schedule_time]]
        /\ UNCHANGED <<predictorVars, pageVars, optimalVars, slotVars, validateVars,
                       varianceVars, plannerVars, optimized_schedule, scheduled_posts>>

\* lines 315-324: the query for the page's scheduled and posted rows runs
ReadExisting ==
    \E i \in RequestIds :
        /\ requests[i].pc = "read"
        /\ requests' = [requests EXCEPT ![i] =
               [@ EXCEPT !.pc = "slot",
                         !.existing_times =
                             {scheduled_posts[k] : k \in 1..Len(scheduled_posts)}]]
        /\ UNCHANGED <<predictorVars, pageVars, optimalVars, slotVars, validateVars,
                       varianceVars, plannerVars, optimized_schedule, scheduled_posts>>

\* lines 325-334: the coroutine resumes with the rows and computes the slot;
\* an exception of calculate_next_posting_slot ends the request
ComputeSlot ==
    \E i \in RequestIds, minutes \in JitterChoices :
        /\ requests[i].pc = "slot"
        /\ LET slot == CalculateNextPostingSlot(region, requests[i].existing_times,
                                                PreferredFrequencyHours, page_preferences,
                                                now, minutes)
           IN  requests' = [requests EXCEPT ![i] =
                   IF slot.kind = "raised"
                   THEN [@ EXCEPT !.pc = "failed", !.outcome = slot]
                   ELSE [@ EXCEPT !.pc = "create", !.schedule_time = {slot.value}]]
        /\ UNCHANGED <<predictorVars, pageVars, optimalVars, slotVars, validateVars,
                       varianceVars, plannerVars, optimized_schedule, scheduled_posts>>

\* lines 336-357: the row is added and committed, whatever rows exist by now
Commit ==
    \E i \in RequestIds :
    \E t \in requests[i].schedule_time :
        /\ requests[i].pc = "create"
        /\ scheduled_posts' = Append(scheduled_posts, t)
        /\ requests' = [requests EXCEPT ![i] =
               [@ EXCEPT !.pc = "done",
                         !.scheduled_post_id = Len(scheduled_posts) + 1,
                         !.outcome = Returned(t)]]
        /\ UNCHANGED <<predictorVars, pageVars, optimalVars, slotVars, validateVars,
                       varianceVars, plannerVars, optimized_schedule>>

NextRoute ==
    \/ Receive
    \/ ReadExisting
    \/ ComputeSlot
    \/ Commit

SpecRoute == InitRoute /\ [][NextRoute]_vars

(***************************************************************************)
(* Properties of the predictor                                             *)
(***************************************************************************)
AllFrom(g) == <<g, g, g, g>>

InternalFailure == trainResult \in {"raised", "error"}

NoFault(d) == ~d.xBad /\ ~d.yEngagementBad /\ ~d.yReachBad /\ ~d.yClicksBad

\* C1: training is atomic with respect to failure. When a training call is
\* over, then after an internal failure (at the scaler fit or at the fit of
\* one of the three models) the scaler and the three models hold what they
\* held before the call, and after a success all four come from the new
\* data; no call leaves only some of them replaced.
C1_TrainAtomic ==
    trainPc = "done" =>
        /\ InternalFailure => Params = trainBefore
        /\ trainResult = "ok" => Params = AllFrom(trainCalls)

\* C2: a prediction that was served while a training call on sound data was
\* running used a scaler and three models of one training generation: the
\* parameter set the predictor held between training calls, or the set the
\* running call fits.
C2_PredictSeesOneGeneration ==
    (predPc = "done" /\ predResult \in {"scored", "empty"} /\ NoFault(trainData)) =>
        predRead \in stable \cup {AllFrom(trainCalls)}

(***************************************************************************)
(* Properties of the slot allocator                                        *)
(***************************************************************************)
MinGap == Hours(2)

\* the hours the specification prescribes for a target date: the page's
\* list if supplied, else the region's list for the weekday class of the
\* region-local calendar date
PrescribedHours(r, target, prefs) ==
    IF prefs # <<>> THEN prefs
    ELSE OptimalPostingTimes(r, IF LocalWeekday(r, target) \in {5, 6}
                                THEN "weekend" ELSE "weekday")

\* the candidates of day d of a search begun at the clock value
DayCandidates(d) ==
    LET hours == PrescribedHours(region, now + Days(d), page_preferences)
    IN  {Days(LocalDay(region, now + Days(d))) + Hours(hours[i]) + jitter[i] - UtcOffset(region) :
            i \in 1..Len(hours)}

\* the candidates of the 7-day horizon
HorizonCandidates == UNION {DayCandidates(d) : d \in 0..6}

Qualifies(c) ==
    /\ c > now
    /\ \A e \in existing_posts : Abs(c - e) >= MinGap

\* C3: a search with a non-empty set of existing instants runs over its
\* 7-day horizon, and a candidate it accepts there is strictly later than
\* now and at least the minimum gap (2 hours) away from every existing
\* instant.
C3_AcceptedSlotKeepsGap ==
    (next_slot.kind # "none" /\ existing_posts # {}) =>
        /\ next_slot.kind \in {"accepted", "fallback"}
        /\ next_slot.kind = "accepted" => Qualifies(next_slot.value)

\* C4: the search returns the chronologically earliest qualifying candidate
\* of the 7-day horizon: whenever some candidate is later than now and at
\* least the minimum gap away from every existing instant, the call returns
\* such a candidate and no qualifying candidate precedes it.
C4_EarliestQualifyingSlot ==
    (next_slot.kind # "none" /\ \E c \in HorizonCandidates : Qualifies(c)) =>
        /\ next_slot.kind = "accepted"
        /\ next_slot.value \in HorizonCandidates
        /\ Qualifies(next_slot.value)
        /\ \A c \in HorizonCandidates : Qualifies(c) => next_slot.value <= c

\* C5: for a recognised region and any target date the call returns one
\* instant per candidate hour, ascending, and the region-local hours of the
\* instants are exactly the candidate hours (the page's list if supplied,
\* else the region's weekday or weekend list by the local weekday).
C5_OptimalTimesFromConfiguredHours ==
    optimal_times.kind # "none" =>
        LET hours == PrescribedHours(region, target_date, page_preferences)
        IN  /\ optimal_times.kind = "returned"
            /\ Len(optimal_times.value) = Len(hours)
            /\ \A i \in 1..(Len(optimal_times.value) - 1) :
                  optimal_times.value[i] <= optimal_times.value[i + 1]
            /\ \A i \in 1..Len(optimal_times.value) :
                  /\ \E j \in 1..Len(hours) : LocalHour(region, optimal_times.value[i]) = hours[j]
                  /\ LocalDay(region, optimal_times.value[i]) = LocalDay(region, target_date)
            /\ \A j \in 1..Len(hours) :
                  \E i \in 1..Len(optimal_times.value) :
                      LocalHour(region, optimal_times.value[i]) = hours[j]

\* the instant the fallback starts from
FallbackInstant ==
    IF existing_posts # {}
    THEN SetMax(existing_posts) + Hours(PreferredFrequencyHours)
    ELSE now + Hours(1)

\* the optimal times of the region-local day of the fallback instant
FallbackDayTimes ==
    LET hours == PrescribedHours(region, FallbackInstant, page_preferences)
    IN  {Days(LocalDay(region, FallbackInstant)) + Hours(hours[i]) + jitter[i]
             - UtcOffset(region) : i \in 1..Len(hours)}

\* C18 (as claimed): when no candidate of the 7-day horizon qualifies, the
\* search returns the optimal time of the local day of the fallback instant
\* that is closest to the fallback instant, whatever its conflicts.
C18_FallbackClosestOptimalTime ==
    (next_slot.kind # "none" /\ \A c \in HorizonCandidates : ~Qualifies(c)) =>
        /\ next_slot.kind = "fallback"
        /\ next_slot.value \in FallbackDayTimes
        /\ \A t \in FallbackDayTimes :
              Abs(next_slot.value - FallbackInstant) <= Abs(t - FallbackInstant)

\* C26 (as claimed): for the regions US and UK every call of
\* get_optimal_posting_times ends normally with a list of instants, and so
\* does every call of calculate_next_posting_slot with an instant.
C26_RecognizedRegionCompletes ==
    /\ optimal_times # NoOutcome =>
          /\ optimal_times.kind = "returned"
          /\ optimal_times.value \in Seq(Int)
    /\ next_slot # NoOutcome => next_slot.kind \in {"accepted", "fallback"}

(***************************************************************************)
(* Properties of the validator                                             *)
(***************************************************************************)
Reported == validation_results.kind = "report"

Warned(kind) ==
    \E i \in 1..Len(validation_results.warnings) : validation_results.warnings[i].kind = kind

Indices == 1..Len(proposed_schedule)

\* C6: whenever the proposed schedule holds an instant at or before now,
\* the report carries an error and is not valid.
C6_PastInstantInvalidates ==
    (Reported /\ \E i \in Indices : proposed_schedule[i] <= now) =>
        /\ validation_results.is_valid = FALSE
        /\ validation_results.errors # <<>>

\* a report was made for a schedule whose only instant not after now is now itself
C6_Witness ==
    /\ Reported
    /\ \E i \in Indices : proposed_schedule[i] = now
    /\ \A i \in Indices : proposed_schedule[i] >= now
    /\ validation_results.is_valid = FALSE

C8_DailyLimitByLocalDay ==
    Reported =>
        /\ Warned("daily_limit") <=>
              \E i \in Indices :
                  Cardinality({j \in Indices : LocalDay(region, proposed_schedule[j])
                                               = LocalDay(region, proposed_schedule[i])})
                      > MaxDailyPosts
        /\ (\A i \in Indices : proposed_schedule[i] > now) => validation_results.is_valid

\* C9: the weekly-limit warning is in the report exactly when more than
\* maxWeeklyPosts instants of the schedule lie within the next 7 days (later
\* than now, no later than now + 7 days); past instants do not count.
C9_WeeklyLimitCountsNextSevenDays ==
    Reported =>
        (Warned("weekly_limit") <=>
            Cardinality({i \in Indices : proposed_schedule[i] > now
                                         /\ proposed_schedule[i] <= now + Days(7)})
                > MaxWeeklyPosts)

\* the warnings of the report about two posts too close together
TooCloseWarnings ==
    {i \in 1..Len(validation_results.warnings) :
        validation_results.warnings[i].kind = "too_close"}

\* the places of the ascending schedule whose instant is less than 2 hours
\* after the one before it
ClosePairs ==
    LET ascending == SortSeq(proposed_schedule, LAMBDA a, b : a < b)
    IN  {i \in 2..Len(ascending) : ascending[i] - ascending[i - 1] < Hours(2)}

\* C22: the report carries one too-close warning per adjacent pair of the
\* ascending schedule that is less than 2 hours apart, none for a pair
\* exactly 2 hours apart, and a schedule with such warnings but without an
\* instant at or before now is still valid.
C22_OneWarningPerClosePair ==
    Reported =>
        /\ Cardinality(TooCloseWarnings) = Cardinality(ClosePairs)
        /\ (\A i \in Indices : proposed_schedule[i] > now) => validation_results.is_valid

\* a report on a future schedule that has a pair too close together and a
\* pair exactly 2 hours apart
C22_Witness ==
    /\ Reported
    /\ \A i \in Indices : proposed_schedule[i] > now
    /\ ClosePairs # {}
    /\ \E i, j \in Indices : proposed_schedule[j] - proposed_schedule[i] = Hours(2)
    /\ validation_results.is_valid

(***************************************************************************)
(* Properties of add_human_like_variance                                   *)
(***************************************************************************)
\* C10: no returned instant is at or before the clock value of the call,
\* whatever the input (instants in the past included); the output is in
\* ascending order and has as many instants as the input.
C10_VarianceAfterNow ==
    varied_times.kind = "returned" =>
        /\ \A i \in 1..Len(varied_times.value) : varied_times.value[i] > now
        /\ \A i \in 1..(Len(varied_times.value) - 1) :
              varied_times.value[i] <= varied_times.value[i + 1]
        /\ Len(varied_times.value) = Len(scheduled_times)

\* a call returned for an input that holds a past instant and an instant
\* whose jittered value can fall on the clock value
C10_Witness ==
    /\ varied_times.kind = "returned"
    /\ Len(scheduled_times) >= 2
    /\ \E i \in 1..Len(scheduled_times) : scheduled_times[i] < now
    /\ \E i \in 1..Len(scheduled_times) : scheduled_times[i] > now


\* C11: a training call with fewer than 20 samples ends with the
\* insufficient-data result and leaves the scaler, the three models and the
\* per-metric bookkeeping as they were; the parameters and the bookkeeping
\* change only in steps of a training call that was given at least 20 samples.
C11_SmallTrainingLeavesStateAlone ==
    [][ /\ (trainPc = "idle" /\ trainPc' # "idle" /\ trainData'.n < 20)
            => /\ trainPc' = "done"
               /\ trainResult' = "insufficient"
               /\ Params' = Params
               /\ model_performance' = model_performance
        /\ (Params' # Params \/ model_performance' # model_performance)
            => /\ trainPc \in {"scale", "engagement", "reach", "click", "track"}
               /\ trainData.n >= 20 ]_vars

\* a 19-sample call has ended on an engine that an earlier call had fitted
C11_Witness ==
    /\ trainPc = "done"
    /\ trainResult = "insufficient"
    /\ trainData.n = 19
    /\ Params = AllFrom(1)
    /\ model_performance = [m \in Metrics |-> 1]


\* C12 (as claimed): a prediction on an engine that no training call has
\* touched returns normally with an untrained marker: it neither raises nor
\* gives a numeric score.
C12_UntrainedPredictReturnsMarker ==
    (predPc = "done" /\ trainCalls = 0 /\ Params = AllFrom(Unfitted))
        => predResult \notin {"raised", "scored"}

\* C13: no step of a prediction or of a suggestion call changes the scaler,
\* the three models or the per-metric bookkeeping.
C13_PredictAndSuggestReadOnly ==
    [][ (predictVars' # predictVars \/ suggestions' # suggestions)
            => /\ Params' = Params
               /\ model_performance' = model_performance ]_vars

\* a prediction has produced scores and a suggestion call has been made on
\* a fitted engine
C13_Witness ==
    /\ predPc = "done"
    /\ predResult = "scored"
    /\ suggestions.kind = "called"
    /\ Params = AllFrom(1)
    /\ model_performance = [m \in Metrics |-> 1]


\* the relative improvement of variant i over the current score reaches
\* the target of the call
Qualifying(i) ==
    /\ suggestions.scores[1] > 0
    /\ (suggestions.scores[i + 1] - suggestions.scores[1]) * 100
           >= suggestions.target * suggestions.scores[1]

\* C16 (as claimed): a suggestion call on a trained engine returns a list of
\* at most 5 suggestions, each a variant whose relative improvement reaches
\* the target, in descending order of improvement, and no variant left out
\* of the list improves more than one that is in it.
C16_TopQualifyingVariants ==
    (suggestions.kind = "called" /\ \A i \in 1..4 : suggestions.engine[i] # Unfitted)
        => /\ suggestions.result.kind = "returned"
           /\ LET list == suggestions.result.value
                  Score(k) == suggestions.scores[list[k].suggestion + 1]
                  Listed == {list[k].suggestion : k \in 1..Len(list)}
              IN  /\ Len(list) <= 5
                  /\ Cardinality(Listed) = Len(list)
                  /\ \A k \in 1..Len(list) : Qualifying(list[k].suggestion)
                  /\ \A k \in 2..Len(list) : Score(k - 1) >= Score(k)
                  /\ \A i \in (1..Len(Variants)) \ Listed :
                        Qualifying(i) =>
                            /\ Len(list) = 5
                            /\ \A k \in 1..Len(list) :
                                   Score(k) >= suggestions.scores[i + 1]


(***************************************************************************)
(* Properties of analyze_content_performance                               *)
(***************************************************************************)

\* the recommendation types of the report
Recommended ==
    {analysis.optimization_recommendations[i].type :
        i \in 1..Len(analysis.optimization_recommendations)}

\* C14: an analysis of fewer than 10 posts ends with the insufficient-data
\* result: an error record without bucket analyses or recommendations.
C14_FewPostsInsufficient ==
    (analysis # NoOutcome /\ Len(posts_data) < 10)
        => /\ analysis.kind = "error"
           /\ DOMAIN analysis = {"kind", "error"}

\* an analysis of exactly 5 posts, all of them usable, has ended
C14_Witness ==
    /\ analysis # NoOutcome
    /\ Len(posts_data) = 5
    /\ \A i \in 1..5 : posts_data[i].valid

\* the usable posts with (image = TRUE) or without (image = FALSE) an image
BucketPosts(image) ==
    {i \in 1..Len(posts_data) : posts_data[i].valid /\ posts_data[i].has_image = image}

RECURSIVE BucketSum(_)
BucketSum(S) ==
    IF S = {} THEN 0
    ELSE LET i == CHOOSE x \in S : TRUE
         IN  posts_data[i].engagement_rate + BucketSum(S \ {i})

\* mean(with) > 1.2 * mean(without), the mean of an empty bucket being 0
WithImageMeanHigher ==
    LET W == BucketPosts(TRUE)
        O == BucketPosts(FALSE)
    IN  IF W = {} THEN FALSE
        ELSE IF O = {} THEN BucketSum(W) > 0
        ELSE 10 * BucketSum(W) * Cardinality(O) > 12 * BucketSum(O) * Cardinality(W)

\* C15: a successful analysis recommends images exactly when the mean
\* engagement of the posts with an image is more than 1.2 times the mean
\* engagement of the posts without one.
C15_ImageRecommendationIffLift ==
    (analysis # NoOutcome /\ analysis.kind = "report")
        => ("visual_content" \in Recommended <=> WithImageMeanHigher)

\* 25 posts, those with an image engaging twice as much as those without:
\* the recommendation is in the report
C15_Witness ==
    /\ analysis # NoOutcome
    /\ analysis.kind = "report"
    /\ Len(posts_data) = 25
    /\ BucketPosts(TRUE) # {} /\ BucketPosts(FALSE) # {}
    /\ \A i \in BucketPosts(TRUE) : posts_data[i].engagement_rate = 10
    /\ \A i \in BucketPosts(FALSE) : posts_data[i].engagement_rate = 5
    /\ "visual_content" \in Recommended


\* the posts the caption-length buckets of the report count, all together
RECURSIVE BucketCountSum(_)
BucketCountSum(B) ==
    IF B = {} THEN 0
    ELSE LET b == CHOOSE x \in B : TRUE
         IN  analysis.caption_length_analysis[b].post_count + BucketCountSum(B \ {b})

\* C23 (as claimed): in a report the post counts of the caption-length
\* buckets add up to the number of analysed posts, whatever the caption
\* lengths.
C23_LengthBucketsCoverEveryPost ==
    (analysis # NoOutcome /\ analysis.kind = "report") =>
        BucketCountSum(DOMAIN analysis.caption_length_analysis)
            = analysis.total_posts_analyzed

\* C30 (as claimed): a report is computed from at least 10 usable posts.
C30_ReportNeedsTenValidPosts ==
    (analysis # NoOutcome /\ analysis.kind = "report") =>
        /\ analysis.total_posts_analyzed >= 10
        /\ Cardinality({i \in 1..Len(posts_data) : posts_data[i].valid}) >= 10

(***************************************************************************)
(* Properties of calculate_posting_frequency                               *)
(***************************************************************************)

\* the mean of the engagement history of the call is above (below) m tenths
HistoryMeanAbove(m) ==
    \E n \in 1..Len(posting_frequency.engagement_history) :
        /\ n = Len(posting_frequency.engagement_history)
        /\ SumSeq(posting_frequency.engagement_history) > m * n

HistoryMeanBelow(m) ==
    \E n \in 1..Len(posting_frequency.engagement_history) :
        /\ n = Len(posting_frequency.engagement_history)
        /\ SumSeq(posting_frequency.engagement_history) < m * n

\* C17: the recommended frequency is the fixed-order computation: start at
\* 6; 4 above 100000 followers, else 5 above 50000, else 8 below 1000; then
\* quality above 0.8 gives max(2, v - 1), else below 0.5 gives min(12, v + 2);
\* then, with a non-empty history, a mean above 5.0 gives max(3, v - 1), else
\* a mean below 1.0 gives min(12, v + 2).
C17_FrequencyComputation ==
    posting_frequency # NoOutcome =>
        LET followers == posting_frequency.page_followers
            quality == posting_frequency.content_quality_score
            v1 == IF followers > 100000 THEN 4
                  ELSE IF followers > 50000 THEN 5
                  ELSE IF followers < 1000 THEN 8 ELSE 6
            v2 == IF quality > 80 THEN (IF v1 - 1 < 2 THEN 2 ELSE v1 - 1)
                  ELSE IF quality < 50 THEN (IF v1 + 2 > 12 THEN 12 ELSE v1 + 2)
                  ELSE v1
            v3 == IF HistoryMeanAbove(50) THEN (IF v2 - 1 < 3 THEN 3 ELSE v2 - 1)
                  ELSE IF HistoryMeanBelow(10) THEN (IF v2 + 2 > 12 THEN 12 ELSE v2 + 2)
                  ELSE v2
        IN  /\ posting_frequency.kind = "returned"
            /\ posting_frequency.value = v3

\* a large page with high quality and high engagement: 4, then 3, and the
\* engagement step stops at its floor of 3
C17_Witness ==
    /\ posting_frequency # NoOutcome
    /\ posting_frequency.page_followers > 100000
    /\ posting_frequency.content_quality_score > 80
    /\ HistoryMeanAbove(50)
    /\ posting_frequency.value = 3


\* C29: every call returns an integer from 3 to 12 (the quality step's floor
\* of 2 is never the result), and of two calls with the same quality score
\* and the same engagement history, the one with at least as many followers
\* returns at most as much.
C29_FrequencyBoundedAndMonotone ==
    [][ /\ posting_frequency'.kind = "returned"
        /\ posting_frequency'.value \in 3..12
        /\ (/\ posting_frequency # NoOutcome
            /\ posting_frequency'.content_quality_score = posting_frequency.content_quality_score
            /\ posting_frequency'.engagement_history = posting_frequency.engagement_history
            /\ posting_frequency'.page_followers >= posting_frequency.page_followers)
               => posting_frequency'.value <= posting_frequency.value ]_vars

\* a small page with low quality and low engagement: 8, then 10, then the
\* upper end 12
C29_Witness ==
    /\ posting_frequency # NoOutcome
    /\ posting_frequency.page_followers < 1000
    /\ posting_frequency.content_quality_score < 50
    /\ HistoryMeanBelow(10)
    /\ posting_frequency.value = 12


(***************************************************************************)
(* Properties of generate_posting_schedule                                 *)
(***************************************************************************)

\* the instants of the result
GeneratedInstants ==
    {generated_schedule.result.value[k] : k \in 1..Len(generated_schedule.result.value)}

\* the region-local dates of the requested range
RangeDates ==
    LocalDay(region, generated_schedule.start_date)
        .. LocalDay(region, generated_schedule.end_date)

\* what the result holds of local date D
Contribution(D) == {t \in GeneratedInstants : LocalDay(region, t) = D}

\* the optimal-time candidates of local date D
DateCandidates(D) ==
    LET preferred == IF "optimal_posting_times" \in DOMAIN generated_schedule.page_preferences
                     THEN generated_schedule.page_preferences.optimal_posting_times
                     ELSE <<>>
        hours == PrescribedHours(region, Days(D) - UtcOffset(region), preferred)
    IN  {Days(D) + Hours(hours[i]) + generated_schedule.minutes[i] - UtcOffset(region) :
            i \in 1..Len(hours)}

\* the minimum interval of the page, 2 hours unless the page sets one
PageMinInterval ==
    IF "min_interval_hours" \in DOMAIN generated_schedule.page_preferences
    THEN Hours(generated_schedule.page_preferences.min_interval_hours)
    ELSE Hours(2)

\* the forward filter over a set of instants taken in ascending order;
\* last is {} before the first instant is kept
RECURSIVE ForwardKept(_, _)
ForwardKept(S, last) ==
    IF S = {} THEN {}
    ELSE LET t == CHOOSE x \in S : \A y \in S : x <= y
         IN  IF last = {} \/ \A l \in last : t - l >= PageMinInterval
             THEN {t} \cup ForwardKept(S \ {t}, {t})
             ELSE ForwardKept(S \ {t}, last)

\* C19 (as claimed): a schedule is returned in which each day's instants
\* are what the forward filter keeps of some selection of at most
\* postsPerDay of that day's candidates, so that two instants of one day
\* are at least the page's minimum interval apart, and the whole result is
\* ascending.
C19_DailyForwardFilter ==
    (generated_schedule # NoOutcome
        /\ generated_schedule.start_date <= generated_schedule.end_date) =>
        /\ generated_schedule.result.kind = "returned"
        /\ \A k \in 2..Len(generated_schedule.result.value) :
              generated_schedule.result.value[k - 1] <= generated_schedule.result.value[k]
        /\ \A D \in RangeDates :
              /\ Cardinality(Contribution(D)) <= generated_schedule.posts_per_day
              /\ \E selected \in SUBSET DateCandidates(D) :
                    /\ Cardinality(selected) <= generated_schedule.posts_per_day
                    /\ Contribution(D) = ForwardKept(selected, {})
              /\ \A t, u \in Contribution(D) : t < u => u - t >= PageMinInterval

\* C20 (as claimed): for start <= end and postsPerDay >= 1 a schedule is
\* returned that holds at least one instant of every region-local date from
\* the date of the start to the date of the end, each date handled once (so
\* never more than postsPerDay instants of one date, and no instant outside
\* these dates).
C20_EveryLocalDateCovered ==
    (generated_schedule # NoOutcome
        /\ generated_schedule.start_date <= generated_schedule.end_date
        /\ generated_schedule.posts_per_day >= 1) =>
        /\ generated_schedule.result.kind = "returned"
        /\ \A D \in RangeDates :
              /\ Contribution(D) # {}
              /\ Cardinality(Contribution(D)) <= generated_schedule.posts_per_day
        /\ \A t \in GeneratedInstants : LocalDay(region, t) \in RangeDates
        /\ Cardinality(GeneratedInstants) = Len(generated_schedule.result.value)


(***************************************************************************)
(* Properties of optimize_schedule_for_engagement                          *)
(***************************************************************************)

\* the hours that have a score in the call, and the score of each
ScoredHours ==
    {optimized_schedule.historical_performance[k].hour :
        k \in 1..Len(optimized_schedule.historical_performance)}

ScoreOfHour(h) ==
    LET k == CHOOSE i \in 1..Len(optimized_schedule.historical_performance) :
                 optimized_schedule.historical_performance[i].hour = h
    IN  optimized_schedule.historical_performance[k].score

\* T is a set of the 5 best-scoring hours (of all of them, if fewer)
IsTopFive(T) ==
    /\ T \subseteq ScoredHours
    /\ Cardinality(T) = (IF Cardinality(ScoredHours) < 5 THEN Cardinality(ScoredHours) ELSE 5)
    /\ \A h \in T, g \in ScoredHours \ T : ScoreOfHour(h) >= ScoreOfHour(g)

\* out is what the claim allows in place of the input instant t
AllowedFor(t, out, T) ==
    IF LocalHour(region, t) \in T
    THEN out = t
    ELSE /\ LocalDay(region, out) = LocalDay(region, t)
         /\ LocalHour(region, out) \in T
         /\ \A h \in T : Abs(LocalHour(region, out) - LocalHour(region, t))
                             <= Abs(h - LocalHour(region, t))

C27_GeneratedWithinRange ==
    generated_schedule # NoOutcome =>
        /\ generated_schedule.result.kind = "returned"
        /\ \A t \in GeneratedInstants :
              /\ generated_schedule.start_date <= t
              /\ t <= generated_schedule.end_date

\* C28 (as claimed): the call returns a schedule in which any two
\* consecutive instants, of one day or of two successive days, are at least
\* the page's minimum interval apart.
C28_GeneratedKeepsIntervalAcrossDays ==
    generated_schedule # NoOutcome =>
        /\ generated_schedule.result.kind = "returned"
        /\ \A k \in 2..Len(generated_schedule.result.value) :
              generated_schedule.result.value[k] - generated_schedule.result.value[k - 1]
                  >= PageMinInterval


(***************************************************************************)
(* Properties of schedule_content                                          *)
(***************************************************************************)
\* the requests for an approved item that ask the route to choose the slot
SlotRequests ==
    {i \in DOMAIN requests :
        /\ requests[i].pc # "idle"
        /\ ~requests[i].given
        /\ requests[i].outcome # Raised("HTTP_404_NOT_FOUND")}

\* every committed row was a slot chosen by the route
OnlySlotRequests == \A i \in DOMAIN requests : ~requests[i].given

\* no row was committed between a request's read and its own commit
OneAtATime ==
    \A i \in SlotRequests :
        requests[i].pc \in {"slot", "create", "done"} =>
            requests[i].existing_times =
                {scheduled_posts[k] :
                    k \in 1..(IF requests[i].pc = "done"
                              THEN requests[i].scheduled_post_id - 1
                              ELSE Len(scheduled_posts))}

\* a slot request that has computed has a slot, and the committed rows are
\* pairwise at least 2 hours apart
SlotsChosenAndApart ==
    /\ \A i \in SlotRequests : requests[i].outcome.kind # "raised"
    /\ \A j, k \in 1..Len(scheduled_posts) :
          j # k => Abs(scheduled_posts[j] - scheduled_posts[k]) >= Hours(MinIntervalHours)

\* C24 (as claimed): when the page's posts are scheduled one at a time, each
\* request reading every committed instant, getting a slot and committing
\* it, any two committed instants are at least 2 hours apart.
C24_SequentialSlotsKeepGap ==
    (OnlySlotRequests /\ OneAtATime) => SlotsChosenAndApart

\* C25 (as claimed): requests for one page that overlap in any way each
\* read the existing times, get a slot and commit it, and no two committed
\* posts are less than 2 hours apart.
C25_ConcurrentRequestsKeepGap ==
    OnlySlotRequests => SlotsChosenAndApart

====
